---------------------------- MODULE Spec2Model ----------------------------
(***************************************************************************)
(* Model of rgbaccent.ino: the USB-serial accent light controller.         *)
(*                                                                         *)
(* The program is one control loop (loop()) that drains the serial input   *)
(* into a line buffer, resolves the line against the command table,        *)
(* invokes the command, services two debounced push buttons, advances the  *)
(* rainbow and alarm animations and renders.  The loop is modelled step by *)
(* step (variable pc), the environment (serial bytes arriving, buttons     *)
(* pressed and released, time passing) by actions of its own.              *)
(***************************************************************************)
EXTENDS Integers, Sequences, FiniteSets, TLC

(***************************************************************************)
(* Program constants.                                                      *)
(***************************************************************************)
NUM_LEDS == 96

cmax == 256

fade_ms == 32

LEDS_ON_2A == 1500

LEDS_ON_USB2 == 400

\* What getCommandNumber returns for "not found": the -1 of its last line,
\* (size_t) -1 in the source.  It is only ever compared for equality, so it
\* is kept as the integer -1.
NOT_FOUND == 0 - 1

\* Number of blend steps of a fade (the bound of solidColor's for loop).
FADE_STEPS == 256

\* debugBlink's blink_ms.
blink_ms == 100

\* Thresholds of the two animation tickers.
RAINBOW_MS == 1000

ALARM_MS == 10

\* Width of the alarm block.
ALARM_WIDTH == 12

(***************************************************************************)
(* Characters.  A byte is its ASCII code; the table's names are lower-case *)
(* letters, written here through Str.                                      *)
(***************************************************************************)
Alphabet ==
    << "a", "b", "c", "d", "e", "f", "g", "h", "i", "j", "k", "l", "m",
       "n", "o", "p", "q", "r", "s", "t", "u", "v", "w", "x", "y", "z" >>

Ord(c) == 96 + (CHOOSE k \in 1..26 : Alphabet[k] = c)

Str(letters) == [k \in 1..Len(letters) |-> Ord(letters[k])]

\* A test that lets the line ends through with the printable characters.
isprintOrSpace(r) == (r >= 32 /\ r <= 126) \/ (r >= 9 /\ r <= 13)

\* isprint() in the C locale: space up to tilde.
isprint(r) == r >= 32 /\ r <= 126

(***************************************************************************)
(* Colors: a CRGB is its 24-bit color code, red in the high byte.          *)
(***************************************************************************)
CRGB(r, g, b) == r * 65536 + g * 256 + b

RedOf(c) == c \div 65536
GreenOf(c) == (c \div 256) % 256
BlueOf(c) == c % 256

Black == CRGB(0, 0, 0)
White == CRGB(255, 255, 255)
Red == CRGB(255, 0, 0)
OrangeRed == CRGB(255, 69, 0)
Yellow == CRGB(255, 255, 0)
Green == CRGB(0, 128, 0)
Aqua == CRGB(0, 255, 255)
Blue == CRGB(0, 0, 255)
Purple == CRGB(128, 0, 128)
Pink == CRGB(255, 192, 203)

(***************************************************************************)
(* The command table.  fn names the action of the entry: the lambdas of    *)
(* the table are named after their entry, the scenes share solidColor.     *)
(***************************************************************************)
CmdEntry(letters, color, duration, fn) ==
    [name |-> Str(letters), color1 |-> color, duration_ms |-> duration, fn |-> fn]

cmdsInOrder ==
    << CmdEntry(<<"s","t","a","r","t","u","p">>, Black, 0, "startup"),
       CmdEntry(<<"m","a","x","m","a">>, Black, 0, "maxma"),
       CmdEntry(<<"u","s","b","m","a">>, Black, 0, "usbma"),
       CmdEntry(<<"d","i","m">>, Black, 0, "dim"),
       CmdEntry(<<"m","e","d","i","u","m">>, Black, 0, "medium"),
       CmdEntry(<<"b","r","i","g","h","t">>, Black, 0, "bright"),
       CmdEntry(<<"f","u","l","l">>, Black, 0, "full"),
       CmdEntry(<<"b","l","a","c","k">>, Black, fade_ms, "solidColor"),
       CmdEntry(<<"w","h","i","t","e">>, White, fade_ms, "solidColor"),
       CmdEntry(<<"r","e","d">>, Red, fade_ms, "solidColor"),
       CmdEntry(<<"o","r","a","n","g","e">>, OrangeRed, fade_ms, "solidColor"),
       CmdEntry(<<"y","e","l","l","o","w">>, Yellow, fade_ms, "solidColor"),
       CmdEntry(<<"g","r","e","e","n">>, Green, fade_ms, "solidColor"),
       CmdEntry(<<"a","q","u","a">>, Aqua, fade_ms, "solidColor"),
       CmdEntry(<<"b","l","u","e">>, Blue, fade_ms, "solidColor"),
       CmdEntry(<<"p","u","r","p","l","e">>, Purple, fade_ms, "solidColor"),
       CmdEntry(<<"p","i","n","k">>, Pink, fade_ms, "solidColor"),
       CmdEntry(<<"r","a","i","n","b","o","w">>, Black, 0, "rainbow"),
       CmdEntry(<<"a","l","a","r","m">>, Black, 0, "alarm") >>

cmd_count == Len(cmdsInOrder)

\* cmds[i], indexed from 0 as in the source.
cmds == [k \in 0..(cmd_count - 1) |-> cmdsInOrder[k + 1]]

\* cmds[c].a, the argument cmds[c].fn is invoked with.
ArgOf(c) ==
    [name |-> cmds[c].name, color1 |-> cmds[c].color1,
     duration_ms |-> cmds[c].duration_ms]

(***************************************************************************)
(* The command resolver.  A C string is the sequence of its characters     *)
(* before the terminator; reading one position past them gives the         *)
(* terminator 0.                                                           *)
(***************************************************************************)
strlen(s) == Len(s)

CharAt(s, k) == IF k <= Len(s) THEN s[k] ELSE 0

RECURSIVE strncmpFrom(_, _, _, _)
strncmpFrom(s1, s2, n, k) ==
    IF k > n THEN 0
    ELSE LET c1 == CharAt(s1, k)
             c2 == CharAt(s2, k)
         IN  IF c1 # c2 THEN c1 - c2
             ELSE IF c1 = 0 THEN 0
             ELSE strncmpFrom(s1, s2, n, k + 1)

strncmp(s1, s2, n) == strncmpFrom(s1, s2, n, 1)

RECURSIVE getCommandNumberFrom(_, _)
getCommandNumberFrom(name, k) ==
    IF k >= cmd_count THEN NOT_FOUND
    ELSE IF strncmp(cmds[k].name, name, strlen(cmds[k].name)) = 0 THEN k
    ELSE getCommandNumberFrom(name, k + 1)

\* A resolver that compares over the candidate's length instead of the
\* name's: every proper prefix of a name would match.
getCommandNumberCandidateLength(name) ==
    IF \E k \in 0..(cmd_count - 1) : strncmp(cmds[k].name, name, strlen(name)) = 0
    THEN CHOOSE k \in 0..(cmd_count - 1) :
            /\ strncmp(cmds[k].name, name, strlen(name)) = 0
            /\ \A j \in 0..(k - 1) : strncmp(cmds[j].name, name, strlen(name)) # 0
    ELSE NOT_FOUND

\* A resolver that compares whole strings: a name followed by anything is
\* not found.
getCommandNumberWholeLine(name) ==
    IF \E k \in 0..(cmd_count - 1) : cmds[k].name = name
    THEN CHOOSE k \in 0..(cmd_count - 1) : cmds[k].name = name
    ELSE NOT_FOUND

\* A resolver that answers with the first entry when nothing matches.
getCommandNumberOrFirst(name) ==
    IF getCommandNumberFrom(name, 0) = NOT_FOUND THEN 0
    ELSE getCommandNumberFrom(name, 0)

getCommandNumber(name) == getCommandNumberFrom(name, 0)

(***************************************************************************)
(* The pixel buffer and the FastLED operations the program calls on it.    *)
(* A buffer is a function from 0..NUM_LEDS-1 to CRGB.                      *)
(***************************************************************************)
Pixels == 0..(NUM_LEDS - 1)

\* fill_solid(leds, NUM_LEDS, color)
fill_solid(color) == [k \in Pixels |-> color]

\* scale8(i, scale): i scaled by (scale + 1) / 256.
scale8(v, scale) == (v * (1 + scale)) \div 256

\* hsv2rgb_rainbow, the conversion of "leds[i] = hsv", for the value 255 that
\* fill_rainbow uses: the hue's top three bits pick one of eight sections,
\* its low five bits the position within the section.
hsv2rgb_rainbow(hue, sat) ==
    LET offset8 == ((hue % 32) * 8) % 256
        third == scale8(offset8, 85)
        twothirds == scale8(offset8, 170)
        section == hue \div 32
        rgb == CASE section = 0 -> CRGB(255 - third, third, 0)
                 [] section = 1 -> CRGB(171, 85 + third, 0)
                 [] section = 2 -> CRGB(171 - twothirds, 170 + third, 0)
                 [] section = 3 -> CRGB(0, 255 - third, third)
                 [] section = 4 -> CRGB(0, 171 - twothirds, 85 + twothirds)
                 [] section = 5 -> CRGB(third, 0, 255 - third)
                 [] section = 6 -> CRGB(85 + third, 0, 171 - third)
                 [] OTHER -> CRGB(170 + third, 0, 85 - third)
        floor == scale8(255 - sat, 255 - sat)
        desaturate(v) == (IF v = 0 THEN 0 ELSE scale8(v, sat)) + floor
    IN  IF sat = 255 THEN rgb
        ELSE CRGB(desaturate(RedOf(rgb)), desaturate(GreenOf(rgb)),
                  desaturate(BlueOf(rgb)))

\* A fill that ignores the phase it is given and always starts at red, as
\* the rainbow command's own fill does.
fill_rainbowFromRed(initialhue, deltahue) ==
    [k \in Pixels |-> hsv2rgb_rainbow((k * deltahue) % 256, 240)]

\* fill_rainbow(leds, NUM_LEDS, initialhue, deltahue): saturation 240, value
\* 255, the hue a uint8_t that advances by deltahue from pixel to pixel.
fill_rainbow(initialhue, deltahue) ==
    [k \in Pixels |-> hsv2rgb_rainbow((initialhue + k * deltahue) % 256, 240)]

\* A blend of two separately truncated products, each scaled by x / 256: the
\* sum of the weights is 255, so a channel already at the target drops.
blend8Truncating(a, b, amountOfB) ==
    (a * (255 - amountOfB)) \div 256 + (b * amountOfB) \div 256

\* blend8(a, b, amountOfB)
blend8(a, b, amountOfB) ==
    (a * (255 - amountOfB) + a + b * amountOfB + b) \div 256

\* nblend(leds, overlay, NUM_LEDS, amountOfOverlay) with a solid overlay.
nblend(existing, overlay, amountOfOverlay) ==
    IF amountOfOverlay = 0 THEN existing
    ELSE IF amountOfOverlay = 255 THEN [k \in Pixels |-> overlay]
    ELSE [k \in Pixels |->
            CRGB(blend8(RedOf(existing[k]), RedOf(overlay), amountOfOverlay),
                 blend8(GreenOf(existing[k]), GreenOf(overlay), amountOfOverlay),
                 blend8(BlueOf(existing[k]), BlueOf(overlay), amountOfOverlay))]

\* The startup command's pattern: black, the first three pixels red, green
\* and blue.
startupPattern ==
    [k \in Pixels |-> IF k = 0 THEN Red
                      ELSE IF k = 1 THEN Green
                      ELSE IF k = 2 THEN Blue
                      ELSE Black]

\* The alarm block: ALARM_WIDTH pixels from phase on, wrapping at the end
\* of the strip, red on black.
alarmPattern(phase) ==
    [k \in Pixels |->
        IF \E j \in 0..(ALARM_WIDTH - 1) : (phase + j) % NUM_LEDS = k
        THEN Red ELSE Black]

(***************************************************************************)
(* Bounds of the model.                                                    *)
(***************************************************************************)
\* Serial lines the environment sends, and button presses (of either
\* button) it makes, in one behaviour of the main specification.
MaxSends == 1

MaxPresses == 2

\* The same for the specification of the fade, where a line arrives and a
\* button is pressed while a fade runs.
MaxFadeSends == 2

MaxFadePresses == 1

\* Serial lines the environment sends in one behaviour of the specification
\* of the line accumulator.
MaxLineSends == 2

(***************************************************************************)
(* State.                                                                  *)
(*   rx            bytes received on the serial link and not yet read      *)
(*   cmdline, cindex, cmd   loop()'s statics                               *)
(*   candidate     the resolver's last answer (loop()'s local)             *)
(*   leds          the pixel buffer                                        *)
(*   brightness, maxPowerMa   FastLED's brightness and power limit         *)
(*   pc            the position of the control thread in loop()            *)
(*   arg           the cmdarg_t a that the command last invoked was given  *)
(*   fadeI         solidColor's loop counter i                             *)
(*   blinkI, blinkCount   debugBlink's loop counter and argument           *)
(*   leftPin, rightPin    the levels of the two inputs (1 released)        *)
(*   leftButton, rightButton   the debounced state each Bounce holds       *)
(*   rainbowDelay, alarmDelay  the elapsedMillis statics (Unstarted until  *)
(*                 the block declaring them is first entered)              *)
(*   rainbowPhase, alarmPhase  the two statics named phase                 *)
(* and, recorded for the properties,                                       *)
(*   handed        the string last handed to the resolver                  *)
(*   overflow      "Command buffer overflow!" was printed in this          *)
(*                 iteration                                               *)
(*   avail         the bytes available when this iteration's drain began   *)
(*   longLeft      how many bytes at the head of rx belong to a line of    *)
(*                 cmax or more printable characters                       *)
(*   fromLong      this iteration's drain read bytes of such a line        *)
(*   shown         renders requested in this iteration: one for each       *)
(*                 show() of loop() and one for each FastLED.delay()       *)
(*   waited        milliseconds this iteration has spent in delay()        *)
(*   faded         this iteration has run a fade                           *)
(*   serviced      the buttons whose press this iteration has acted on     *)
(*   sends, presses   what the environment has done so far                 *)
(***************************************************************************)
VARIABLES rx, cmdline, cindex, cmd, candidate, leds, brightness, maxPowerMa,
          pc, fadeI, blinkI, blinkCount, leftPin, rightPin, leftButton,
          rightButton, rainbowDelay, alarmDelay, rainbowPhase, alarmPhase,
          handed, overflow, avail, longLeft, fromLong, shown, waited, faded,
          serviced, sends, presses, arg

vars == << rx, cmdline, cindex, cmd, candidate, leds, brightness, maxPowerMa,
           pc, fadeI, blinkI, blinkCount, leftPin, rightPin, leftButton,
           rightButton, rainbowDelay, alarmDelay, rainbowPhase, alarmPhase,
           handed, overflow, avail, longLeft, fromLong, shown, waited, faded,
           serviced, sends, presses, arg >>

lineVars == << cmdline, cindex, candidate, handed, overflow, avail, fromLong >>
ledVars == << leds, brightness, maxPowerMa >>
buttonVars == << leftButton, rightButton >>
pinVars == << leftPin, rightPin >>
animVars == << rainbowDelay, alarmDelay, rainbowPhase, alarmPhase >>
blinkVars == << blinkI, blinkCount >>
envVars == << rx, longLeft, sends, presses, leftPin, rightPin >>

Unstarted == 0 - 1

\* An elapsedMillis after ms more milliseconds.  Values above the ticker's
\* threshold all compare alike, so they are kept as threshold + 1.
Later(timer, ms, threshold) ==
    IF timer = Unstarted THEN Unstarted
    ELSE IF timer + ms > threshold THEN threshold + 1
    ELSE timer + ms

\* The static char array cmdline is kept as the sequence of its cells up to
\* the last one written: cell k of the array is element k + 1, and the cells
\* behind the sequence hold the zeros of static initialization.
Cell(buf, k) == IF k < Len(buf) THEN buf[k + 1] ELSE 0

\* buf after buf[k] = v.
Store(buf, k, v) ==
    IF k < Len(buf) THEN [buf EXCEPT ![k + 1] = v]
    ELSE IF k = Len(buf) THEN Append(buf, v)
    ELSE [j \in 1..(k + 1) |-> IF j = k + 1 THEN v ELSE Cell(buf, j - 1)]

\* The characters of a buffer before its first terminator.
CString(buf) ==
    LET n == IF \E k \in 0..(Len(buf) - 1) : Cell(buf, k) = 0
             THEN CHOOSE k \in 0..(Len(buf) - 1) :
                     Cell(buf, k) = 0 /\ \A j \in 0..(k - 1) : Cell(buf, j) # 0
             ELSE Len(buf)
    IN  [k \in 1..n |-> Cell(buf, k - 1)]

\* A buffer holding the string s, terminated.
Terminated(s) == s \o << 0 >>

\* The printable bytes of a sequence, in order.
Printable(q) == SelectSeq(q, isprint)

\* After setup(): the startup pattern, brightness 8, 400 mA, no line, no
\* mode.  A Bounce takes its first state from a read of its pin made before
\* the pull-up is enabled, so that state is either level.
Init ==
    /\ rx = << >>
    /\ cmdline = << >>
    /\ cindex = 0
    /\ cmd = cmd_count
    /\ candidate = NOT_FOUND
    /\ leds = startupPattern
    /\ brightness = 8
    /\ maxPowerMa = 400
    /\ pc = "drain"
    /\ fadeI = 0
    /\ blinkI = 0
    /\ blinkCount = 0
    /\ leftPin = 1
    /\ rightPin = 1
    /\ leftButton \in {0, 1}
    /\ rightButton \in {0, 1}
    /\ rainbowDelay = Unstarted
    /\ alarmDelay = Unstarted
    /\ rainbowPhase = 0
    /\ alarmPhase = 0
    /\ handed = << >>
    /\ overflow = FALSE
    /\ avail = << >>
    /\ longLeft = 0
    /\ fromLong = FALSE
    /\ shown = 0
    /\ waited = 0
    /\ faded = FALSE
    /\ serviced = {}
    /\ sends = 0
    /\ presses = 0
    /\ arg = ArgOf(0)

(***************************************************************************)
(* loop(), first part: the serial drain and the dispatch.                  *)
(***************************************************************************)
\* A pass whose overflow test is one character late, at cindex == cmax: the
\* terminator of the last character is written behind the buffer.
DrainPassLateTest(s, r) ==
    IF s.overflow THEN s
    ELSE IF isprint(r)
    THEN LET stored == Store(Store(s.cmdline, s.cindex, r), s.cindex + 1, 0)
         IN  IF s.cindex + 1 = cmax
             THEN [read |-> s.read + 1, cmdline |-> Store(stored, 0, 0),
                   cindex |-> 0, overflow |-> TRUE]
             ELSE [read |-> s.read + 1, cmdline |-> stored,
                   cindex |-> s.cindex + 1, overflow |-> FALSE]
    ELSE [s EXCEPT !.read = s.read + 1]

\* One pass of the while loop over Serial.available(), reading byte r.  s
\* is the loop's state: the number of bytes read, cmdline, cindex, and
\* whether the loop has been left through the break of the overflow branch
\* (after which nothing more is read).
DrainPass(s, r) ==
    IF s.overflow THEN s
    ELSE IF isprint(r)
    THEN LET stored == Store(Store(s.cmdline, s.cindex, r), s.cindex + 1, 0)
         IN  IF s.cindex + 1 = cmax - 1
             THEN [read |-> s.read + 1, cmdline |-> Store(stored, 0, 0),
                   cindex |-> 0, overflow |-> TRUE]
             ELSE [read |-> s.read + 1, cmdline |-> stored,
                   cindex |-> s.cindex + 1, overflow |-> FALSE]
    ELSE [s EXCEPT !.read = s.read + 1]

\* The passes over bytes lo..hi of q, in order, from state s.  The range is
\* split in halves only to keep the evaluation shallow.
RECURSIVE DrainPasses(_, _, _, _)
DrainPasses(q, lo, hi, s) ==
    IF lo > hi THEN s
    ELSE IF lo = hi THEN DrainPass(s, q[lo])
    ELSE LET mid == (lo + hi) \div 2
             half == DrainPasses(q, lo, mid, s)
         IN  IF half.read >= 0 THEN DrainPasses(q, mid + 1, hi, half) ELSE half

\* The whole while loop: q is what is available, buf and ci are cmdline and
\* cindex.  The result is what the loop leaves.
DrainLoop(q, buf, ci) ==
    LET s == DrainPasses(q, 1, Len(q),
                 [read |-> 0, cmdline |-> buf, cindex |-> ci, overflow |-> FALSE])
    IN  [rx |-> SubSeq(q, s.read + 1, Len(q)), cmdline |-> s.cmdline,
         cindex |-> s.cindex, overflow |-> s.overflow]

\* Top of loop(): read what is available into cmdline.
Drain ==
    /\ pc = "drain"
    /\ LET d == DrainLoop(rx, cmdline, cindex)
           read == Len(rx) - Len(d.rx)
       IN  /\ rx' = d.rx
           /\ cmdline' = d.cmdline
           /\ cindex' = d.cindex
           /\ overflow' = d.overflow
           /\ fromLong' = (read > 0 /\ longLeft > 0)
           /\ longLeft' = IF longLeft > read THEN longLeft - read ELSE 0
    /\ avail' = rx
    /\ shown' = 0
    /\ waited' = 0
    /\ faded' = FALSE
    /\ serviced' = {}
    /\ pc' = "dispatch"
    /\ UNCHANGED << cmd, candidate, handed, ledVars, fadeI, arg, blinkVars, pinVars,
                    buttonVars, animVars, sends, presses >>

\* What invoking cmds[c].fn leaves in the buffer (a scene without a fade
\* included: solidColor's final fill).
fnLeds(c, buf) ==
    CASE cmds[c].fn = "startup" -> startupPattern
      [] cmds[c].fn = "solidColor" -> fill_solid(cmds[c].color1)
      [] cmds[c].fn = "rainbow" -> fill_rainbow(0, 1)
      [] OTHER -> buf

fnBrightness(c, b) ==
    CASE cmds[c].fn = "dim" -> 8
      [] cmds[c].fn = "medium" -> 24
      [] cmds[c].fn = "bright" -> 32
      [] cmds[c].fn = "full" -> 48
      [] OTHER -> b

fnMaxPower(c, ma) ==
    CASE cmds[c].fn = "maxma" -> LEDS_ON_2A
      [] cmds[c].fn = "usbma" -> LEDS_ON_USB2
      [] OTHER -> ma

\* solidColor takes the fade branch.
Fades(c) == cmds[c].fn = "solidColor" /\ cmds[c].duration_ms # 0

\* if (cindex) { ... }: resolve the line and invoke the command.  A scene
\* with a fade duration enters solidColor's loop; everything else is done
\* within the step.
Dispatch ==
    /\ pc = "dispatch"
    /\ IF cindex = 0
       THEN /\ pc' = "left"
            /\ UNCHANGED << cmd, candidate, handed, cindex, ledVars, fadeI, arg, faded >>
       ELSE LET name == CString(cmdline)
                c == getCommandNumber(name)
            IN  /\ handed' = name
                /\ candidate' = c
                /\ IF c = NOT_FOUND
                   THEN /\ cindex' = 0
                        /\ pc' = "left"
                        /\ UNCHANGED << cmd, ledVars, fadeI, arg, faded >>
                   ELSE /\ cmd' = c
                        /\ arg' = ArgOf(c)
                        /\ IF Fades(c)
                           THEN /\ fadeI' = 0
                                /\ faded' = TRUE
                                /\ pc' = "fade"
                                /\ UNCHANGED << cindex, ledVars >>
                           ELSE /\ leds' = fnLeds(c, leds)
                                /\ brightness' = fnBrightness(c, brightness)
                                /\ maxPowerMa' = fnMaxPower(c, maxPowerMa)
                                /\ cindex' = 0
                                /\ pc' = "left"
                                /\ UNCHANGED << fadeI, faded >>
    /\ UNCHANGED << rx, cmdline, overflow, avail, longLeft, fromLong, shown,
                    waited, serviced, blinkVars, pinVars, buttonVars, animVars,
                    sends, presses >>

\* A blend step that waits with delay() instead of FastLED.delay(): it does
\* not render.
FadeStepPlainDelay ==
    /\ pc = "fade"
    /\ fadeI < FADE_STEPS
    /\ leds' = nblend(leds, arg.color1, 4)
    /\ waited' = waited + arg.duration_ms
    /\ rainbowDelay' = Later(rainbowDelay, arg.duration_ms, RAINBOW_MS)
    /\ alarmDelay' = Later(alarmDelay, arg.duration_ms, ALARM_MS)
    /\ fadeI' = fadeI + 1
    /\ UNCHANGED << arg, rx, lineVars, cmd, brightness, maxPowerMa, pc, blinkVars,
                    pinVars, buttonVars, rainbowPhase, alarmPhase, longLeft,
                    shown, faded, serviced, sends, presses >>

\* One pass of solidColor's loop: a blend step of amount 4, then
\* FastLED.delay(duration_ms), which renders while it waits.
FadeStep ==
    /\ pc = "fade"
    /\ fadeI < FADE_STEPS
    /\ leds' = nblend(leds, arg.color1, 4)
    /\ shown' = shown + 1
    /\ waited' = waited + arg.duration_ms
    /\ rainbowDelay' = Later(rainbowDelay, arg.duration_ms, RAINBOW_MS)
    /\ alarmDelay' = Later(alarmDelay, arg.duration_ms, ALARM_MS)
    /\ fadeI' = fadeI + 1
    /\ UNCHANGED << arg, rx, lineVars, cmd, brightness, maxPowerMa, pc, blinkVars,
                    pinVars, buttonVars, rainbowPhase, alarmPhase, longLeft,
                    faded, serviced, sends, presses >>

\* A fade that pending serial input cuts short: the loop is left as soon as
\* a byte is waiting.
FadeDoneOrInterrupted ==
    /\ pc = "fade"
    /\ (fadeI = FADE_STEPS \/ rx # << >>)
    /\ leds' = fill_solid(arg.color1)
    /\ cindex' = 0
    /\ pc' = "left"
    /\ UNCHANGED << rx, cmdline, candidate, handed, overflow, avail, fromLong,
                    cmd, brightness, maxPowerMa, fadeI, arg, blinkVars, pinVars,
                    buttonVars, animVars, longLeft, shown, waited, faded,
                    serviced, sends, presses >>

\* The loop is over: "Done!", the final fill, and back in loop() the reset
\* of cindex.
FadeDone ==
    /\ pc = "fade"
    /\ fadeI = FADE_STEPS
    /\ leds' = fill_solid(arg.color1)
    /\ cindex' = 0
    /\ pc' = "left"
    /\ UNCHANGED << rx, cmdline, candidate, handed, overflow, avail, fromLong,
                    cmd, brightness, maxPowerMa, fadeI, arg, blinkVars, pinVars,
                    buttonVars, animVars, longLeft, shown, waited, faded, serviced,
                    sends, presses >>

(***************************************************************************)
(* loop(), second part: the buttons and debugBlink.                        *)
(***************************************************************************)
\* An edge test that takes the release for a press as well.
AnyEdge(pin, state) == pin # state

\* Bounce::update() followed by fallingEdge(): the debounced state follows
\* the pin, and the edge is a change of that state to low.
FallingEdge(pin, state) == pin # state /\ pin = 0

LeftButton ==
    /\ pc = "left"
    /\ leftButton' = leftPin
    /\ IF FallingEdge(leftPin, leftButton)
       THEN /\ brightness' = IF brightness # 0 THEN 0 ELSE 32
            /\ blinkI' = 0
            /\ blinkCount' = 5
            /\ serviced' = serviced \cup {"left"}
            /\ pc' = "blinkLeft"
       ELSE /\ pc' = "right"
            /\ UNCHANGED << brightness, blinkVars, serviced >>
    /\ UNCHANGED << rx, lineVars, cmd, leds, maxPowerMa, fadeI, arg, pinVars,
                    rightButton, animVars, longLeft, shown, waited, faded,
                    sends, presses >>

\* A cycle that wraps to the first entry of the table instead of "white".
NextModeWrapToFirst(c) == IF cmd_count <= c + 1 THEN 0 ELSE c + 1

\* A cycle that stays on the last entry instead of wrapping.
NextModeStayAtEnd(c) == IF cmd_count <= c + 1 THEN cmd_count - 1 ELSE c + 1

\* The mode a right-button press moves to from mode c.
NextMode(c) ==
    IF cmd_count <= c + 1
    THEN getCommandNumber(Str(<< "w", "h", "i", "t", "e" >>))
    ELSE c + 1

\* A right-button service that calls the function of the entry it lands on.
RightButtonInvokes ==
    /\ pc = "right"
    /\ rightButton' = rightPin
    /\ IF FallingEdge(rightPin, rightButton)
       THEN /\ cmd' = NextMode(cmd)
            /\ leds' = fnLeds(cmd', fill_solid(cmds[cmd'].color1))
            /\ brightness' = fnBrightness(cmd', brightness)
            /\ maxPowerMa' = fnMaxPower(cmd', maxPowerMa)
            /\ blinkI' = 0
            /\ blinkCount' = 2
            /\ serviced' = serviced \cup {"right"}
            /\ pc' = "blinkRight"
       ELSE /\ pc' = "animate"
            /\ UNCHANGED << cmd, leds, brightness, maxPowerMa, blinkVars, serviced >>
    /\ UNCHANGED << rx, lineVars, fadeI, arg, pinVars,
                    leftButton, animVars, longLeft, shown, waited, faded,
                    sends, presses >>

\* The service of the right button.
RightButton ==
    /\ pc = "right"
    /\ rightButton' = rightPin
    /\ IF FallingEdge(rightPin, rightButton)
       THEN /\ cmd' = NextMode(cmd)
            /\ leds' = fill_solid(cmds[cmd'].color1)
            /\ blinkI' = 0
            /\ blinkCount' = 2
            /\ serviced' = serviced \cup {"right"}
            /\ pc' = "blinkRight"
       ELSE /\ pc' = "animate"
            /\ UNCHANGED << cmd, leds, blinkVars, serviced >>
    /\ UNCHANGED << rx, lineVars, brightness, maxPowerMa, fadeI, arg, pinVars,
                    leftButton, animVars, longLeft, shown, waited, faded,
                    sends, presses >>

\* delay(ms): the thread waits, the elapsedMillis counters run on.
Delay(ms) ==
    /\ waited' = waited + ms
    /\ rainbowDelay' = Later(rainbowDelay, ms, RAINBOW_MS)
    /\ alarmDelay' = Later(alarmDelay, ms, ALARM_MS)

\* One pass of debugBlink's loop: LED on, delay, LED off, delay.
BlinkStep ==
    /\ pc \in {"blinkLeft", "blinkRight"}
    /\ blinkI < blinkCount
    /\ Delay(2 * blink_ms)
    /\ blinkI' = blinkI + 1
    /\ UNCHANGED << rx, lineVars, cmd, ledVars, pc, fadeI, arg, blinkCount, pinVars,
                    buttonVars, rainbowPhase, alarmPhase, longLeft, shown,
                    faded, serviced, sends, presses >>

\* A debugBlink without its closing pause.
BlinkReturn ==
    /\ pc \in {"blinkLeft", "blinkRight"}
    /\ blinkI = blinkCount
    /\ pc' = IF pc = "blinkLeft" THEN "right" ELSE "animate"
    /\ UNCHANGED << rx, lineVars, cmd, ledVars, fadeI, arg, blinkVars, pinVars,
                    buttonVars, animVars, longLeft, shown, waited, faded,
                    serviced, sends, presses >>

\* debugBlink's closing pause, and the return into loop().
BlinkPause ==
    /\ pc \in {"blinkLeft", "blinkRight"}
    /\ blinkI = blinkCount
    /\ Delay(3 * blink_ms)
    /\ pc' = IF pc = "blinkLeft" THEN "right" ELSE "animate"
    /\ UNCHANGED << rx, lineVars, cmd, ledVars, fadeI, arg, blinkVars, pinVars,
                    buttonVars, rainbowPhase, alarmPhase, longLeft, shown,
                    faded, serviced, sends, presses >>

(***************************************************************************)
(* loop(), third part: the animations and the render.                      *)
(***************************************************************************)
\* An elapsedMillis static as the block that declares it finds it: the
\* first entry constructs it at 0.
Entered(timer) == IF timer = Unstarted THEN 0 ELSE timer

\* A comparison that lets the ticker fire at the threshold itself.
RainbowDueAtThreshold(timer) == RAINBOW_MS <= timer

\* The rainbow ticker fires: the comparison of the elapsed time with the
\* threshold.
RainbowDue(timer) == RAINBOW_MS < timer

AlarmDue(timer) == ALARM_MS < timer

\* The uint8_t rainbow phase after ++phase.
RainbowAdvance(phase) == (phase + 1) % 256

\* A wrap one position late: the phase reaches NUM_LEDS.
AlarmAdvanceLate(phase) ==
    LET p == (phase + 1) % 256
    IN  IF NUM_LEDS < p THEN 0 ELSE p

\* The alarm phase after ++phase and the wrap at NUM_LEDS.
AlarmAdvance(phase) ==
    LET p == (phase + 1) % 256
    IN  IF NUM_LEDS <= p THEN 0 ELSE p

\* Animation blocks that keep running once their timer exists, whatever the
\* mode has become.
AnimateOnceStarted ==
    /\ pc = "animate"
    /\ IF \/ cmd = getCommandNumber(Str(<< "r", "a", "i", "n", "b", "o", "w" >>))
          \/ (rainbowDelay # Unstarted /\ alarmDelay = Unstarted)
       THEN IF RainbowDue(Entered(rainbowDelay))
            THEN /\ rainbowPhase' = RainbowAdvance(rainbowPhase)
                 /\ leds' = fill_rainbow(rainbowPhase', 1)
                 /\ rainbowDelay' = 0
                 /\ UNCHANGED << alarmDelay, alarmPhase >>
            ELSE /\ rainbowDelay' = Entered(rainbowDelay)
                 /\ UNCHANGED << leds, rainbowPhase, alarmDelay, alarmPhase >>
       ELSE IF \/ cmd = getCommandNumber(Str(<< "a", "l", "a", "r", "m" >>))
               \/ alarmDelay # Unstarted
       THEN IF AlarmDue(Entered(alarmDelay))
            THEN /\ alarmPhase' = AlarmAdvance(alarmPhase)
                 /\ leds' = alarmPattern(alarmPhase')
                 /\ alarmDelay' = 0
                 /\ UNCHANGED << rainbowDelay, rainbowPhase >>
            ELSE /\ alarmDelay' = Entered(alarmDelay)
                 /\ UNCHANGED << leds, alarmPhase, rainbowDelay, rainbowPhase >>
       ELSE UNCHANGED << leds, animVars >>
    /\ pc' = "show"
    /\ UNCHANGED << rx, lineVars, cmd, brightness, maxPowerMa, fadeI, arg, blinkVars,
                    pinVars, buttonVars, longLeft, shown, waited, faded, serviced, sends,
                    presses >>

\* The two animation blocks of loop(), each guarded by the mode.
Animate ==
    /\ pc = "animate"
    /\ IF cmd = getCommandNumber(Str(<< "r", "a", "i", "n", "b", "o", "w" >>))
       THEN IF RainbowDue(Entered(rainbowDelay))
            THEN /\ rainbowPhase' = RainbowAdvance(rainbowPhase)
                 /\ leds' = fill_rainbow(rainbowPhase', 1)
                 /\ rainbowDelay' = 0
                 /\ UNCHANGED << alarmDelay, alarmPhase >>
            ELSE /\ rainbowDelay' = Entered(rainbowDelay)
                 /\ UNCHANGED << leds, rainbowPhase, alarmDelay, alarmPhase >>
       ELSE IF cmd = getCommandNumber(Str(<< "a", "l", "a", "r", "m" >>))
       THEN IF AlarmDue(Entered(alarmDelay))
            THEN /\ alarmPhase' = AlarmAdvance(alarmPhase)
                 /\ leds' = alarmPattern(alarmPhase')
                 /\ alarmDelay' = 0
                 /\ UNCHANGED << rainbowDelay, rainbowPhase >>
            ELSE /\ alarmDelay' = Entered(alarmDelay)
                 /\ UNCHANGED << leds, alarmPhase, rainbowDelay, rainbowPhase >>
       ELSE UNCHANGED << leds, animVars >>
    /\ pc' = "show"
    /\ UNCHANGED << rx, lineVars, cmd, brightness, maxPowerMa, fadeI, arg, blinkVars,
                    pinVars, buttonVars, longLeft, shown, waited, faded, serviced, sends,
                    presses >>

\* FastLED.show(), the last statement of loop().
Show ==
    /\ pc = "show"
    /\ shown' = shown + 1
    /\ pc' = "drain"
    /\ UNCHANGED << rx, lineVars, cmd, ledVars, fadeI, arg, blinkVars, pinVars,
                    buttonVars, animVars, longLeft, waited, faded, serviced, sends,
                    presses >>

Loop ==
    \/ Drain
    \/ Dispatch
    \/ FadeStep
    \/ FadeDone
    \/ LeftButton
    \/ RightButton
    \/ BlinkStep
    \/ BlinkPause
    \/ Animate
    \/ Show

(***************************************************************************)
(* The environment.                                                        *)
(***************************************************************************)
\* A line arrives on the serial link, whole, while nothing is pending.
SerialSend(line, limit) ==
    /\ rx = << >>
    /\ sends < limit
    /\ rx' = line
    /\ longLeft' = IF Len(Printable(line)) >= cmax THEN Len(line) ELSE 0
    /\ sends' = sends + 1
    /\ UNCHANGED << lineVars, cmd, ledVars, pc, fadeI, arg, blinkVars, pinVars,
                    buttonVars, animVars, shown, waited, faded, serviced, presses >>

PressLeft(limit) ==
    /\ leftPin = 1
    /\ presses < limit
    /\ leftPin' = 0
    /\ presses' = presses + 1
    /\ UNCHANGED << rx, lineVars, cmd, ledVars, pc, fadeI, arg, blinkVars, rightPin,
                    buttonVars, animVars, longLeft, shown, waited, faded, serviced, sends >>

ReleaseLeft ==
    /\ leftPin = 0
    /\ leftPin' = 1
    /\ UNCHANGED << rx, lineVars, cmd, ledVars, pc, fadeI, arg, blinkVars, rightPin,
                    buttonVars, animVars, longLeft, shown, waited, faded, serviced, sends,
                    presses >>

PressRight(limit) ==
    /\ rightPin = 1
    /\ presses < limit
    /\ rightPin' = 0
    /\ presses' = presses + 1
    /\ UNCHANGED << rx, lineVars, cmd, ledVars, pc, fadeI, arg, blinkVars, leftPin,
                    buttonVars, animVars, longLeft, shown, waited, faded, serviced, sends >>

ReleaseRight ==
    /\ rightPin = 0
    /\ rightPin' = 1
    /\ UNCHANGED << rx, lineVars, cmd, ledVars, pc, fadeI, arg, blinkVars, leftPin,
                    buttonVars, animVars, longLeft, shown, waited, faded, serviced, sends,
                    presses >>

\* Time passes while the thread is between two iterations of loop().
Elapse(ms) ==
    /\ pc = "drain"
    /\ rainbowDelay' = Later(rainbowDelay, ms, RAINBOW_MS)
    /\ alarmDelay' = Later(alarmDelay, ms, ALARM_MS)
    /\ << rainbowDelay', alarmDelay' >> # << rainbowDelay, alarmDelay >>
    /\ UNCHANGED << rx, lineVars, cmd, ledVars, pc, fadeI, arg, blinkVars, pinVars,
                    buttonVars, rainbowPhase, alarmPhase, longLeft, shown,
                    waited, faded, serviced, sends, presses >>

\* The lines of the main specification: a scene, the last entry of the
\* table, and a brightness level followed by an argument and a line end.
Lines ==
    { Str(<< "r", "e", "d" >>),
      Str(<< "a", "l", "a", "r", "m" >>),
      Str(<< "f", "u", "l", "l" >>) \o << 32, 53, 13, 10 >> }

Next ==
    \/ Loop
    \/ \E line \in Lines : SerialSend(line, MaxSends)
    \/ PressLeft(MaxPresses)
    \/ ReleaseLeft
    \/ PressRight(MaxPresses)
    \/ ReleaseRight

Spec == Init /\ [][Next]_vars

(***************************************************************************)
(* The fade: a scene is sent, and while it fades a second line arrives and *)
(* a button is pressed and released.                                       *)
(***************************************************************************)
FadeLines ==
    { Str(<< "r", "e", "d" >>),
      Str(<< "f", "u", "l", "l" >>) }

NextFade ==
    \/ Loop
    \/ \E line \in FadeLines : SerialSend(line, MaxFadeSends)
    \/ PressLeft(MaxFadePresses)
    \/ ReleaseLeft
    \/ PressRight(MaxFadePresses)
    \/ ReleaseRight

SpecFade == Init /\ [][NextFade]_vars

(***************************************************************************)
(* The line accumulator at its capacity: lines of cmax - 2, cmax - 1 and   *)
(* more than cmax printable characters, and short lines: one with a line   *)
(* end, one that is no command, one with non-printable bytes in its        *)
(* middle.  No button is pressed and no scene is sent, so the loop never   *)
(* fades or blinks.                                                        *)
(***************************************************************************)
Pad(n) == [k \in 1..n |-> Ord("x")]

LongLines ==
    { Str(<< "f", "u", "l", "l" >>) \o Pad(cmax - 2 - 4),
      Str(<< "f", "u", "l", "l" >>) \o Pad(cmax - 1 - 4),
      Pad(cmax - 1) \o Str(<< "m", "e", "d", "i", "u", "m" >>),
      Str(<< "b", "r", "i", "g", "h", "t" >>) \o << 13, 10 >>,
      Str(<< "r", "e" >>),
      Str(<< "m", "e" >>) \o << 13, 10, 0 >> \o Str(<< "d", "i", "u", "m" >>) }

NextLine ==
    \/ Drain
    \/ Dispatch
    \/ LeftButton
    \/ RightButton
    \/ Animate
    \/ Show
    \/ \E line \in LongLines : SerialSend(line, MaxLineSends)

SpecLine == Init /\ [][NextLine]_vars

(***************************************************************************)
(* The animations: the program as the dispatch of a first line "rainbow"   *)
(* or "alarm" leaves it, and time passing between the iterations.          *)
(***************************************************************************)
ElapseSteps == {10, 500}

InitAnim ==
    /\ rx = << >>
    /\ \E c \in { getCommandNumber(Str(<< "r", "a", "i", "n", "b", "o", "w" >>)),
                  getCommandNumber(Str(<< "a", "l", "a", "r", "m" >>)) } :
          /\ cmdline = Terminated(cmds[c].name)
          /\ handed = cmds[c].name
          /\ avail = cmds[c].name
          /\ candidate = c
          /\ cmd = c
          /\ arg = ArgOf(c)
          /\ leds = fnLeds(c, startupPattern)
    /\ cindex = 0
    /\ brightness = 8
    /\ maxPowerMa = 400
    /\ pc = "left"
    /\ fadeI = 0
    /\ blinkI = 0
    /\ blinkCount = 0
    /\ leftPin = 1
    /\ rightPin = 1
    /\ leftButton \in {0, 1}
    /\ rightButton \in {0, 1}
    /\ rainbowDelay = Unstarted
    /\ alarmDelay = Unstarted
    /\ rainbowPhase = 0
    /\ alarmPhase = 0
    /\ overflow = FALSE
    /\ longLeft = 0
    /\ fromLong = FALSE
    /\ shown = 0
    /\ waited = 0
    /\ faded = FALSE
    /\ serviced = {}
    /\ sends = 1
    /\ presses = 0

NextAnim ==
    \/ Drain
    \/ Dispatch
    \/ LeftButton
    \/ RightButton
    \/ Animate
    \/ Show
    \/ \E ms \in ElapseSteps : Elapse(ms)

SpecAnim == InitAnim /\ [][NextAnim]_vars

(***************************************************************************)
(* The resolver alone: a candidate string in the line buffer, and the      *)
(* resolver applied to it.                                                 *)
(***************************************************************************)
Names == { cmds[k].name : k \in 0..(cmd_count - 1) }

\* Every name; every name followed by an argument, by a letter, by another
\* name; every name without its last or its first character; every name
\* with its first letter changed; the empty string.
Candidates ==
    Names
    \cup { n \o << 32, 53 >> : n \in Names }
    \cup { n \o << Ord("x") >> : n \in Names }
    \cup { n \o m : n \in Names, m \in Names }
    \cup { SubSeq(n, 1, Len(n) - 1) : n \in Names }
    \cup { SubSeq(n, 2, Len(n)) : n \in Names }
    \cup { << Ord("z") >> \o SubSeq(n, 2, Len(n)) : n \in Names }
    \cup { << >> }

InitResolve ==
    /\ rx = << >>
    /\ \E s \in Candidates :
          /\ cmdline = Terminated(s)
          /\ cindex = Len(s)
          /\ avail = s
    /\ handed = << >>
    /\ candidate = NOT_FOUND
    /\ cmd = cmd_count
    /\ leds = startupPattern
    /\ brightness = 8
    /\ maxPowerMa = 400
    /\ pc = "resolve"
    /\ fadeI = 0
    /\ blinkI = 0
    /\ blinkCount = 0
    /\ leftPin = 1
    /\ rightPin = 1
    /\ leftButton = 1
    /\ rightButton = 1
    /\ rainbowDelay = Unstarted
    /\ alarmDelay = Unstarted
    /\ rainbowPhase = 0
    /\ alarmPhase = 0
    /\ overflow = FALSE
    /\ longLeft = 0
    /\ fromLong = FALSE
    /\ shown = 0
    /\ waited = 0
    /\ faded = FALSE
    /\ serviced = {}
    /\ sends = 0
    /\ presses = 0
    /\ arg = ArgOf(0)

\* size_t candidate = getCommandNumber(cmdline);
Resolve ==
    /\ pc = "resolve"
    /\ handed' = CString(cmdline)
    /\ candidate' = getCommandNumber(handed')
    /\ pc' = "resolved"
    /\ UNCHANGED << rx, cmdline, cindex, cmd, ledVars, fadeI, arg, blinkVars,
                    pinVars, buttonVars, animVars, overflow, avail, longLeft,
                    fromLong, shown, waited, faded, serviced, sends, presses >>

SpecResolve == InitResolve /\ [][Resolve]_vars

(***************************************************************************)
(* An animation interrupted: the program as the dispatch of a first line   *)
(* "rainbow" or "alarm" leaves it, time passing, and further lines: a      *)
(* brightness level, a power limit, and the animations again.              *)
(***************************************************************************)
\* Serial lines in one behaviour of this specification, the first, already
\* dispatched, included.
MaxModeSends == 3

\* Time stops passing in this specification once an animation has come this
\* far.
MaxModePhase == 3

ModeLines ==
    { Str(<< "f", "u", "l", "l" >>) \o << 32, 53, 13, 10 >>,
      Str(<< "u", "s", "b", "m", "a" >>),
      Str(<< "a", "l", "a", "r", "m" >>) }

\* Half a second passes between two iterations.
ElapseEarly ==
    /\ rainbowPhase < MaxModePhase
    /\ alarmPhase < MaxModePhase
    /\ Elapse(500)

NextInterrupted ==
    \/ Drain
    \/ Dispatch
    \/ LeftButton
    \/ RightButton
    \/ Animate
    \/ Show
    \/ ElapseEarly
    \/ \E line \in ModeLines : SerialSend(line, MaxModeSends)

SpecMode == InitAnim /\ [][NextInterrupted]_vars

(***************************************************************************)
(* The cycle of the right button: the line "startup" makes the first entry *)
(* the mode, and presses walk the table from there to its end and around.  *)
(***************************************************************************)
\* Right-button presses in one behaviour of this specification: enough to
\* walk from the first entry to the last.
MaxCyclePresses == 18

CycleLines == { Str(<< "s", "t", "a", "r", "t", "u", "p" >>) }

NextCycle ==
    \/ Drain
    \/ Dispatch
    \/ LeftButton
    \/ RightButton
    \/ BlinkStep
    \/ BlinkPause
    \/ Animate
    \/ Show
    \/ ElapseEarly
    \/ \E line \in CycleLines : SerialSend(line, 1)
    \/ PressRight(MaxCyclePresses)
    \/ ReleaseRight

SpecCycle == Init /\ [][NextCycle]_vars

(***************************************************************************)
(* solidColor alone: the function is entered with an argument and a        *)
(* buffer, and runs to its return.                                         *)
(***************************************************************************)
\* The table entries whose function is solidColor.
Scenes == { c \in 0..(cmd_count - 1) : cmds[c].fn = "solidColor" }

\* The durations solidColor is entered with: none, and the table's.
Durations == {0, fade_ms}

\* Buffers the program leaves behind: the startup pattern, rainbows, an
\* alarm block across the end of the strip, scenes.
StartBuffers ==
    { startupPattern, fill_rainbow(0, 1), fill_rainbow(200, 1),
      alarmPattern(90), fill_solid(Black), fill_solid(White),
      fill_solid(OrangeRed), fill_solid(Pink) }

InitSolid ==
    /\ rx = << >>
    /\ cmdline = << >>
    /\ cindex = 0
    /\ \E c \in Scenes, d \in Durations :
          /\ cmd = c
          /\ candidate = c
          /\ arg = [ArgOf(c) EXCEPT !.duration_ms = d]
    /\ leds \in StartBuffers
    /\ brightness = 8
    /\ maxPowerMa = 400
    /\ pc = "solidColor"
    /\ fadeI = 0
    /\ blinkI = 0
    /\ blinkCount = 0
    /\ leftPin = 1
    /\ rightPin = 1
    /\ leftButton = 1
    /\ rightButton = 1
    /\ rainbowDelay = Unstarted
    /\ alarmDelay = Unstarted
    /\ rainbowPhase = 0
    /\ alarmPhase = 0
    /\ handed = << >>
    /\ overflow = FALSE
    /\ avail = << >>
    /\ longLeft = 0
    /\ fromLong = FALSE
    /\ shown = 0
    /\ waited = 0
    /\ faded = FALSE
    /\ serviced = {}
    /\ sends = 0
    /\ presses = 0

\* A solidColor whose final fill is inside the if: without a duration it
\* leaves the buffer as it was.
SolidColorFillInBranch ==
    /\ pc = "solidColor"
    /\ IF arg.duration_ms # 0
       THEN /\ fadeI' = 0
            /\ faded' = TRUE
            /\ pc' = "fade"
       ELSE /\ pc' = "left"
            /\ UNCHANGED << fadeI, faded >>
    /\ UNCHANGED << rx, lineVars, cmd, ledVars, arg, blinkVars, pinVars,
                    buttonVars, animVars, longLeft, shown, waited, serviced,
                    sends, presses >>

\* solidColor(a) from its entry: with a duration, into the loop of the
\* fade; without, the fill and the return.
SolidColor ==
    /\ pc = "solidColor"
    /\ IF arg.duration_ms # 0
       THEN /\ fadeI' = 0
            /\ faded' = TRUE
            /\ pc' = "fade"
            /\ UNCHANGED leds
       ELSE /\ leds' = fill_solid(arg.color1)
            /\ pc' = "left"
            /\ UNCHANGED << fadeI, faded >>
    /\ UNCHANGED << rx, lineVars, cmd, brightness, maxPowerMa, arg, blinkVars,
                    pinVars, buttonVars, animVars, longLeft, shown, waited,
                    serviced, sends, presses >>

NextSolid ==
    \/ SolidColor
    \/ FadeStep
    \/ FadeDone

SpecSolid == InitSolid /\ [][NextSolid]_vars

(***************************************************************************)
(* Properties.                                                             *)
(***************************************************************************)
\* s starts with p.
StartsWith(s, p) == Len(p) <= Len(s) /\ SubSeq(s, 1, Len(p)) = p

\* The entries whose full name the string starts with.
Matching(s) == { k \in 0..(cmd_count - 1) : StartsWith(s, cmds[k].name) }

\* C1: for every candidate string the resolver returns the lowest table
\* index whose full name the candidate starts with (what follows the name
\* is ignored), and "not found" when no name is a prefix of the candidate.
\* Checked under SpecResolve.
C1_ResolveLowestPrefix ==
    pc = "resolved" =>
        IF Matching(handed) = {}
        THEN candidate = NOT_FOUND
        ELSE /\ candidate \in Matching(handed)
             /\ \A k \in Matching(handed) : candidate <= k

\* A name followed by more characters has been resolved to its entry.
C1_Witness ==
    /\ pc = "resolved"
    /\ candidate # NOT_FOUND
    /\ Len(handed) > Len(cmds[candidate].name)

\* C2: when exactly cmax - 1 printable characters are available in one
\* drain, no overflow is reported and the one candidate line handed to the
\* resolver is those characters.  Checked under SpecLine, where the code
\* violates it: the character that brings cindex to cmax - 1 is taken for
\* an overflow.
C2_FullLineAccepted ==
    (pc = "dispatch" /\ Len(Printable(avail)) = cmax - 1) =>
        /\ ~overflow
        /\ cindex = cmax - 1
        /\ CString(cmdline) = Printable(avail)

\* C3: of a line of cmax or more printable characters nothing is ever
\* handed to the resolver: a drain that has read bytes of such a line ends
\* with no candidate.  Checked under SpecLine, where the code violates it:
\* the bytes behind the overflow point stay in the serial buffer and are the
\* next iteration's line.
C3_OverlongLineDropped ==
    (pc = "dispatch" /\ fromLong) => cindex = 0

\* The render count and the wait a fade has cost the iteration that ran it.
FadeShows == IF faded THEN FADE_STEPS ELSE 0

FadeWait == IF faded THEN FADE_STEPS * fade_ms ELSE 0

\* rx has only grown: what was waiting is still waiting, in order.
Kept(before, after) ==
    Len(before) <= Len(after) /\ SubSeq(after, 1, Len(before)) = before

\* C4: a fade, once started, runs all 256 blend steps and cannot be
\* cancelled: while the thread is in the fade no serial byte is consumed, no
\* button edge is taken (the debounced states, the brightness and the mode
\* stay as they are), neither animation phase advances, and the fade is left
\* only after the last step, for the button service of the same iteration.
\* Checked under SpecFade.
C4_FadeRunsToCompletion ==
    [][ pc = "fade" =>
          /\ Kept(rx, rx')
          /\ cmdline' = cmdline
          /\ leftButton' = leftButton
          /\ rightButton' = rightButton
          /\ brightness' = brightness
          /\ cmd' = cmd
          /\ rainbowPhase' = rainbowPhase
          /\ alarmPhase' = alarmPhase
          /\ fadeI' \in {fadeI, fadeI + 1}
          /\ fadeI' <= FADE_STEPS
          /\ (pc' # "fade" => fadeI = FADE_STEPS /\ pc' = "left") ]_vars

\* The last blend step is done, a line has arrived during the fade and waits
\* unread, and the left button is down without its edge having been taken.
C4_Witness ==
    /\ pc = "fade"
    /\ fadeI = FADE_STEPS
    /\ rx # << >>
    /\ leftPin = 0
    /\ leftButton = 1

\* What debugBlink(n) waits in all.
BlinkWait(n) == n * 2 * blink_ms + 3 * blink_ms

\* C5 as claimed: in an iteration that runs no fade no step waits.  Checked
\* under Spec, where the code violates it: a button press is followed by
\* debugBlink, which waits.
C5_OnlyFadeWaits ==
    ~faded => waited = 0

\* C5 as amended: the fade and the diagnostic blink after a button press are
\* the blocking operations.  When an iteration reaches its render it has
\* waited 256 * 32 ms if it ran a fade, 1300 ms if it acted on a left press
\* and 700 ms if it acted on a right press, and nothing else; so an
\* iteration with neither a fade nor a button press has not waited at all.
C5_FadeAndBlinkWait ==
    pc = "show" =>
        waited = FadeWait
                 + (IF "left" \in serviced THEN BlinkWait(5) ELSE 0)
                 + (IF "right" \in serviced THEN BlinkWait(2) ELSE 0)

\* An iteration without a fade that acted on a button press reaches its
\* render.
C5_Witness ==
    /\ pc = "show"
    /\ ~faded
    /\ serviced # {}

\* C6 as claimed: a render is requested once per iteration, as its last
\* step: nothing has been rendered before the iteration is over.  Checked
\* under Spec, where the code violates it: every blend step of a fade
\* renders.
C6_ShowOncePerIteration ==
    IF pc = "drain" THEN shown <= 1 ELSE shown = 0

\* C6 as amended: an iteration that runs no fade requests a render exactly
\* once, as its last step; an iteration that runs a fade requests one more
\* in each of its 256 blend steps, before the buttons and the animations
\* are served, and then the one of the last step.
C6_ShowOnceBesideFade ==
    /\ pc = "fade" => shown = fadeI
    /\ pc \notin {"fade", "drain"} => shown = FadeShows
    /\ pc = "drain" => shown \in {0, FadeShows + 1}
    /\ (pc = "drain" /\ shown = 0) => (~faded /\ waited = 0 /\ serviced = {})

\* An iteration that ran a fade is over.
C6_Witness ==
    /\ pc = "drain"
    /\ faded
    /\ shown = FADE_STEPS + 1

\* The table index of the entry named "white".
WhiteIndex ==
    CHOOSE k \in 0..(cmd_count - 1) : cmds[k].name = Str(<< "w", "h", "i", "t", "e" >>)

\* C7: when the right-button service finds a falling edge, the mode becomes
\* the next table index, or the index of "white" when that is past the last
\* entry (the initial mode "none" included); the whole buffer is set in that
\* step to the new entry's color, and no blend step, wait or render comes
\* with it, whatever fade duration the entry has.  Without an edge the mode
\* and the buffer stay.  Checked under Spec.
C7_RightButtonCycles ==
    [][ (pc = "right" /\ pc' # "right") =>
          IF rightPin = 0 /\ rightButton = 1
          THEN /\ cmd' = IF cmd + 1 < cmd_count THEN cmd + 1 ELSE WhiteIndex
               /\ \A k \in Pixels : leds'[k] = cmds[cmd'].color1
               /\ pc' = "blinkRight"
               /\ fadeI' = fadeI
               /\ faded' = faded
               /\ shown' = shown
               /\ waited' = waited
          ELSE /\ cmd' = cmd
               /\ leds' = leds ]_vars

\* A press took the cycle past the last table entry: the mode is "white" and
\* the strip is white with no fade run, although the entry fades when it is
\* commanded.
C7_Witness ==
    /\ pc = "blinkRight"
    /\ cmd = WhiteIndex
    /\ \A k \in Pixels : leds[k] = White
    /\ cmds[cmd].duration_ms # 0
    /\ ~faded

\* C8: when the left-button service finds a falling edge, the brightness
\* becomes 0 if it was non-zero and 32 otherwise, whatever non-zero level it
\* had; the edge is then taken (the debounced state is low), so the action
\* cannot fire again before a release has been seen; a release, a held
\* button and an idle button leave the brightness alone.  Checked under
\* Spec, a press being the falling edge the debounced reader reports.
C8_LeftButtonToggles ==
    [][ (pc = "left" /\ pc' # "left") =>
          /\ leftButton' = leftPin
          /\ IF leftPin = 0 /\ leftButton = 1
             THEN /\ brightness' = IF brightness # 0 THEN 0 ELSE 32
                  /\ pc' = "blinkLeft"
             ELSE /\ brightness' = brightness
                  /\ pc' = "right" ]_vars

\* The second press of two: the first took the brightness to 0, this one to
\* 32.
C8_Witness ==
    /\ pc = "blinkLeft"
    /\ brightness = 32
    /\ presses = 2

\* The pixels that hold the alert color.
AlertPixels(buf) == { k \in Pixels : buf[k] = Red }

\* C9: when the alarm ticker fires (its timer is restarted), the phase goes
\* up by one and wraps to 0 at 96, staying in 0..95, and the buffer is then
\* the alert color on the 12 pixels (phase + i) mod 96, i in 0..11, from
\* the new phase on, and black elsewhere.  Checked under SpecAnim.
C9_AlarmTick ==
    [][ (pc = "animate" /\ alarmDelay > 0 /\ alarmDelay' = 0) =>
          /\ alarmPhase' = (alarmPhase + 1) % NUM_LEDS
          /\ alarmPhase' \in 0..(NUM_LEDS - 1)
          /\ AlertPixels(leds') =
                { (alarmPhase' + i) % NUM_LEDS : i \in 0..11 }
          /\ Cardinality(AlertPixels(leds')) = 12
          /\ \A k \in Pixels \ AlertPixels(leds') : leds'[k] = Black ]_vars

\* The tick that wrapped the phase to 0: the block is on pixels 0..11.
C9_Witness ==
    /\ pc = "show"
    /\ cmd = cmd_count - 1
    /\ alarmPhase = 0
    /\ alarmDelay = 0
    /\ leds[11] = Red
    /\ leds[95] = Black

\* C10: when the rainbow ticker fires (its timer is restarted), the phase
\* goes up by one modulo 256 and every pixel k of the buffer is rewritten
\* with the color of hue (new phase + k) mod 256.  Checked under SpecAnim.
C10_RainbowTick ==
    [][ (pc = "animate" /\ rainbowDelay > 0 /\ rainbowDelay' = 0) =>
          /\ rainbowPhase' = (rainbowPhase + 1) % 256
          /\ \A k \in Pixels :
                leds'[k] = hsv2rgb_rainbow((rainbowPhase' + k) % 256, 240) ]_vars

\* The tick that took the phase to 255: pixel 1 holds hue 0, the hue having
\* wrapped along the strip.
C10_Witness ==
    /\ pc = "show"
    /\ rainbowPhase = 255
    /\ rainbowDelay = 0
    /\ leds[0] = hsv2rgb_rainbow(255, 240)
    /\ leds[1] = hsv2rgb_rainbow(0, 240)
    /\ leds[0] # leds[1]

\* The three channels of a packed color.
Channels(c) == << RedOf(c), GreenOf(c), BlueOf(c) >>

\* A channel that went from v to w is at least as close to the target t as
\* it was, and has not passed it.
Approaches(v, w, t) ==
    IF v <= t THEN v <= w /\ w <= t ELSE t <= w /\ w <= v

\* What 256 steps of amount 4 can leave between a channel and its target: a
\* step moves a channel by about 4/256 of the distance, which rounds to
\* nothing below a distance of 256 / 4.
BlendTolerance == 256 \div 4

Distance(v, t) == IF v <= t THEN t - v ELSE v - t

\* C11: in a fade every blend step leaves each channel of each pixel at
\* least as close to the target's channel as it was and never past it;
\* when the 256 steps are done each channel is within the blend's rounding
\* tolerance of the target, and the step that returns from solidColor leaves
\* every pixel exactly the target color.  Checked under SpecSolid.
C11_FadeApproachesTarget ==
    [][ pc = "fade" =>
          /\ fadeI' = fadeI + 1 =>
                \A k \in Pixels : \A ch \in 1..3 :
                    Approaches(Channels(leds[k])[ch], Channels(leds'[k])[ch],
                               Channels(arg.color1)[ch])
          /\ fadeI' = FADE_STEPS =>
                \A k \in Pixels : \A ch \in 1..3 :
                    Distance(Channels(leds'[k])[ch], Channels(arg.color1)[ch])
                        <= BlendTolerance
          /\ pc' # "fade" =>
                /\ fadeI = FADE_STEPS
                /\ \A k \in Pixels : leds'[k] = arg.color1 ]_vars

\* The 256 steps of a fade to pink are done and have left a pixel short of
\* the target: the return is what makes the buffer exact.
C11_Witness ==
    /\ pc = "fade"
    /\ fadeI = FADE_STEPS
    /\ arg.color1 = Pink
    /\ \E k \in Pixels : leds[k] # arg.color1

\* C12: solidColor entered with a duration of 0 returns with every pixel
\* equal to the argument's color, whatever the buffer held.  Checked under
\* SpecSolid.
C12_ImmediateFill ==
    [][ (pc = "solidColor" /\ arg.duration_ms = 0) =>
          /\ pc' = "left"
          /\ \A k \in Pixels : leds'[k] = arg.color1
          /\ shown' = shown
          /\ waited' = waited
          /\ fadeI' = fadeI ]_vars

\* An immediate fill with aqua has replaced a buffer that was something
\* else, with no fade run.
C12_Witness ==
    /\ pc = "left"
    /\ arg.duration_ms = 0
    /\ arg.color1 = Aqua
    /\ \A k \in Pixels : leds[k] = Aqua
    /\ ~faded
    /\ shown = 0

\* C13: when the line handed to the resolver starts with no name of the
\* table, the dispatch step leaves the mode, the pixel buffer, the
\* brightness and the power limit as they were, and resets the cursor to 0.
\* Checked under SpecLine.
C13_UnresolvedLineIgnored ==
    [][ (/\ pc = "dispatch"
         /\ pc' # "dispatch"
         /\ cindex # 0
         /\ Matching(CString(cmdline)) = {}) =>
          /\ cmd' = cmd
          /\ leds' = leds
          /\ brightness' = brightness
          /\ maxPowerMa' = maxPowerMa
          /\ cindex' = 0
          /\ pc' = "left" ]_vars

\* The line "re" has been dispatched after a line that set a mode: nothing
\* was found, the mode is still the earlier one.
C13_Witness ==
    /\ pc = "left"
    /\ handed = Str(<< "r", "e" >>)
    /\ candidate = NOT_FOUND
    /\ cmd # cmd_count
    /\ cindex = 0

\* The bytes of q from 32 to 126, in order.
PrintableBytes(q) == SelectSeq(q, LAMBDA r : r \in 32..126)

\* C14: non-printable bytes in the input are never stored in the line
\* buffer and never end the accumulation: after a drain that did not
\* overflow, the line in the buffer is exactly the printable bytes of what
\* was available, in order, and the cursor is its length.  Checked under
\* SpecLine, where every drain starts with the cursor at 0.
C14_NonPrintableDropped ==
    (pc = "dispatch" /\ ~overflow) =>
        /\ cindex = Len(PrintableBytes(avail))
        /\ [k \in 1..cindex |-> Cell(cmdline, k - 1)] = PrintableBytes(avail)
        /\ cindex # 0 => CString(cmdline) = PrintableBytes(avail)

\* A line with a carriage return, a line feed and a zero byte in its middle
\* has been drained: the candidate is "medium".
C14_Witness ==
    /\ pc = "dispatch"
    /\ Len(avail) > 3
    /\ avail[3] = 13
    /\ avail[5] = 0
    /\ CString(cmdline) = Str(<< "m", "e", "d", "i", "u", "m" >>)

\* The table indices of the two animations.
RainbowIndex ==
    CHOOSE k \in 0..(cmd_count - 1) :
        cmds[k].name = Str(<< "r", "a", "i", "n", "b", "o", "w" >>)

AlarmIndex ==
    CHOOSE k \in 0..(cmd_count - 1) : cmds[k].name = Str(<< "a", "l", "a", "r", "m" >>)

\* The time a ticker's counter shows to the animation step: a counter that
\* step has never reached starts at 0 there.
Elapsed(timer) == IF timer = Unstarted THEN 0 ELSE timer

\* C15 as claimed: in the animation step of an iteration whose mode is
\* rainbow (alarm) the ticker fires if and only if its elapsed time is at
\* least 1000 ms (10 ms), and a fire resets the elapsed time to 0.  Checked
\* under SpecAnim, where the code violates it: at exactly the threshold the
\* ticker does not fire.
C15_TickAtOrAfterThreshold ==
    [][ (pc = "animate" /\ pc' = "show") =>
          /\ cmd = RainbowIndex =>
                /\ (rainbowPhase' # rainbowPhase) <=> (Elapsed(rainbowDelay) >= RAINBOW_MS)
                /\ (rainbowPhase' # rainbowPhase) => rainbowDelay' = 0
          /\ cmd = AlarmIndex =>
                /\ (alarmPhase' # alarmPhase) <=> (Elapsed(alarmDelay) >= ALARM_MS)
                /\ (alarmPhase' # alarmPhase) => alarmDelay' = 0 ]_vars

\* C15 as amended: the ticker fires if and only if its elapsed time is
\* more than 1000 ms (10 ms); at exactly the threshold it does not fire and
\* the elapsed time runs on; a fire resets the elapsed time to 0.
C15_TickAfterThreshold ==
    [][ (pc = "animate" /\ pc' = "show") =>
          /\ cmd = RainbowIndex =>
                /\ (rainbowPhase' # rainbowPhase) <=> (Elapsed(rainbowDelay) > RAINBOW_MS)
                /\ rainbowDelay' = IF Elapsed(rainbowDelay) > RAINBOW_MS
                                   THEN 0 ELSE Elapsed(rainbowDelay)
          /\ cmd = AlarmIndex =>
                /\ (alarmPhase' # alarmPhase) <=> (Elapsed(alarmDelay) > ALARM_MS)
                /\ alarmDelay' = IF Elapsed(alarmDelay) > ALARM_MS
                                 THEN 0 ELSE Elapsed(alarmDelay) ]_vars

\* The animation step has run in rainbow mode with exactly 1000 ms elapsed
\* and has not fired: the counter still shows 1000 and the phase is the
\* initial one.
C15_Witness ==
    /\ pc = "show"
    /\ cmd = RainbowIndex
    /\ rainbowDelay = RAINBOW_MS
    /\ rainbowPhase = 0

\* The steps of loop() that may follow one another.
StepOrder ==
    { << "drain", "dispatch" >>, << "dispatch", "fade" >>,
      << "dispatch", "left" >>, << "fade", "left" >>,
      << "left", "blinkLeft" >>, << "left", "right" >>,
      << "blinkLeft", "right" >>, << "right", "blinkRight" >>,
      << "right", "animate" >>, << "blinkRight", "animate" >>,
      << "animate", "show" >>, << "show", "drain" >> }

\* This iteration has resolved the line it drained into a command.
ResolvedNow ==
    /\ avail # << >>
    /\ handed = PrintableBytes(avail)
    /\ candidate # NOT_FOUND

\* C16: the steps of an iteration come in the order drain, dispatch (with
\* the fade of a scene), left button, right button, animations, render.
\* So when an iteration resolves a command and then acts on a right-button
\* edge, the mode it reaches the animation step with is the command's index
\* plus one, or "white" past the end of the table, the buffer holds that
\* entry's color, and the animation step works on that mode: an animation
\* the command named and the button left does not run.  Checked under Spec.
C16_StepsInOrder ==
    /\ [][ pc' # pc => << pc, pc' >> \in StepOrder ]_vars
    /\ [](( /\ pc \in {"animate", "show"}
            /\ ResolvedNow
            /\ "right" \in serviced ) =>
            /\ cmd = IF candidate + 1 < cmd_count THEN candidate + 1 ELSE WhiteIndex
            /\ cmd \notin {RainbowIndex, AlarmIndex} =>
                  \A k \in Pixels : leds[k] = cmds[cmd].color1)
    /\ [][ ( /\ pc = "animate"
             /\ pc' = "show"
             /\ ResolvedNow
             /\ "right" \in serviced ) =>
             /\ cmd # AlarmIndex =>
                   alarmDelay' = alarmDelay /\ alarmPhase' = alarmPhase
             /\ cmd # RainbowIndex =>
                   rainbowDelay' = rainbowDelay /\ rainbowPhase' = rainbowPhase
             /\ cmd \notin {RainbowIndex, AlarmIndex} => leds' = leds ]_vars

\* The line "alarm" and a right-button press were served by one iteration:
\* at the render the mode is "white", the strip is white and the alarm
\* animation has never run.
C16_Witness ==
    /\ pc = "show"
    /\ ResolvedNow
    /\ candidate = AlarmIndex
    /\ "right" \in serviced
    /\ cmd = WhiteIndex
    /\ \A k \in Pixels : leds[k] = White
    /\ alarmDelay = Unstarted

\* The accumulator after the first n bytes of a drain that finds q waiting.
DrainedSoFar(q, n) ==
    DrainPasses(q, 1, n, [read |-> 0, cmdline |-> cmdline, cindex |-> cindex,
                          overflow |-> FALSE])

\* C17: the cursor is never above 255; no cell behind the 256 of the buffer
\* is ever written (the buffer is kept as the cells written so far); after
\* every byte a drain takes, the cell at the cursor is the terminator if
\* anything has been appended; and the buffer the dispatch hands to the
\* resolver (cursor not 0) is a string of exactly cursor characters.
\* Checked under SpecLine.
C17_BufferBounds ==
    /\ [](/\ cindex \in 0..(cmax - 1)
          /\ Len(cmdline) <= cmax
          /\ (pc = "dispatch" /\ cindex # 0) =>
                /\ Cell(cmdline, cindex) = 0
                /\ Len(CString(cmdline)) = cindex)
    /\ [][ (pc = "drain" /\ pc' = "dispatch") =>
             \A n \in 1..Len(rx) :
                LET s == DrainedSoFar(rx, n)
                IN  /\ s.cindex \in 0..(cmax - 1)
                    /\ Len(s.cmdline) <= cmax
                    /\ (s.cindex # 0 \/ s.overflow) => Cell(s.cmdline, s.cindex) = 0
                    /\ \A k \in 0..(s.cindex - 1) : Cell(s.cmdline, k) # 0 ]_vars

\* The longest line the accumulator delivers, 254 characters, is in the
\* buffer behind an earlier, shorter line: the cursor is 254 and the cell
\* there is the terminator.
C17_Witness ==
    /\ pc = "dispatch"
    /\ cindex = cmax - 2
    /\ Len(cmdline) = cmax - 1
    /\ Cell(cmdline, cindex) = 0
    /\ sends = 2

\* The lowest table index whose name the string s starts with.
FirstMatching(s) ==
    CHOOSE k \in Matching(s) : \A j \in Matching(s) : k <= j

\* C18: a phase changes only in the animation step of an iteration whose
\* mode is that animation's index; in a mode that is neither animation the
\* animation step leaves both phases and the pixel buffer alone; and the
\* dispatch makes the index of every resolved command the mode, a brightness
\* level or a power limit included, so such a command stops a running
\* animation until "rainbow" or "alarm" is the mode again.  Checked under
\* SpecMode.
C18_AnimationOnlyInItsMode ==
    [][ /\ rainbowPhase' # rainbowPhase => (pc = "animate" /\ cmd = RainbowIndex)
        /\ alarmPhase' # alarmPhase => (pc = "animate" /\ cmd = AlarmIndex)
        /\ (pc = "animate" /\ pc' = "show" /\ cmd \notin {RainbowIndex, AlarmIndex}) =>
              /\ leds' = leds
              /\ rainbowPhase' = rainbowPhase
              /\ alarmPhase' = alarmPhase
        /\ (/\ pc = "dispatch"
            /\ pc' # "dispatch"
            /\ cindex # 0
            /\ Matching(CString(cmdline)) # {}) =>
              cmd' = FirstMatching(CString(cmdline)) ]_vars

\* The alarm had advanced when the line "full 5" made "full" the mode; more
\* than 10 ms later the animation step has run and the block is where it
\* was.
C18_Witness ==
    /\ pc = "show"
    /\ cmds[cmd].fn = "full"
    /\ alarmPhase > 0
    /\ alarmDelay > ALARM_MS
    /\ leds = alarmPattern(alarmPhase)

\* The indices of the table.
TableIndices == 0..(cmd_count - 1)

\* C19: the mode is a table index or the initial cmd_count, "none"; every
\* change of the mode leads to a table index, so "none" is never entered
\* again; the two steps that read the table at the mode, the dispatch of a
\* resolved line and the service of a right-button press, read it at a
\* table index; and once a line that names a command has been handed to
\* the resolver the mode is not "none".  Checked under Spec.
C19_ModeIsTableIndex ==
    /\ [](/\ cmd \in TableIndices \cup {cmd_count}
          /\ Matching(handed) # {} => cmd \in TableIndices)
    /\ [][ /\ cmd' # cmd => cmd' \in TableIndices
           /\ (pc = "right" /\ pc' = "blinkRight") => cmd' \in TableIndices
           /\ (pc = "dispatch" /\ pc' # "dispatch" /\ candidate' # NOT_FOUND
               /\ handed' # handed) => cmd' \in TableIndices ]_vars

\* The first thing that ever happened is a right-button press: it took the
\* mode from "none" to "white".
C19_Witness ==
    /\ pc = "blinkRight"
    /\ handed = << >>
    /\ sends = 0
    /\ cmd = WhiteIndex
    /\ presses = 1

\* Every pixel of the buffer is black.
AllBlack(buf) == \A k \in Pixels : buf[k] = Black

\* C20: a right-button press does not invoke the function of the entry it
\* lands on: the step leaves brightness and power limit as they were and
\* fills the buffer with the entry's stored color, black for every entry
\* that is not a scene; after landing on rainbow or alarm the buffer is
\* black when the animation step is reached, and that step, in the same
\* iteration, runs the animation's block: its timer exists from then on and
\* the buffer is the animation's as soon as the timer lets it fire.
\* Checked under SpecCycle.
C20_CycleFillsOnly ==
    /\ [][ (pc = "right" /\ pc' = "blinkRight") =>
             /\ brightness' = brightness
             /\ maxPowerMa' = maxPowerMa
             /\ \A k \in Pixels : leds'[k] = cmds[cmd'].color1
             /\ cmd' \notin Scenes => AllBlack(leds') ]_vars
    /\ []( ("right" \in serviced /\ cmd \in {RainbowIndex, AlarmIndex}) =>
             /\ pc \in {"blinkRight", "animate"} => AllBlack(leds)
             /\ (pc = "show" /\ cmd = RainbowIndex) =>
                   /\ rainbowDelay # Unstarted
                   /\ AllBlack(leds) \/ (rainbowDelay = 0 /\ leds = fill_rainbow(rainbowPhase, 1))
             /\ (pc = "show" /\ cmd = AlarmIndex) =>
                   /\ alarmDelay # Unstarted
                   /\ AllBlack(leds) \/ (alarmDelay = 0 /\ leds = alarmPattern(alarmPhase)) )

\* A press has landed on "rainbow" and the iteration is at its render: the
\* buffer is black, not the rainbow the command draws, the brightness is
\* the one setup() chose although the cycle went over every level, and the
\* rainbow's timer has been started.
C20_Witness ==
    /\ pc = "show"
    /\ "right" \in serviced
    /\ cmd = RainbowIndex
    /\ AllBlack(leds)
    /\ brightness = 8
    /\ maxPowerMa = LEDS_ON_USB2
    /\ rainbowDelay = 0

=============================================================================
